---- MODULE Spec2Model ----
(***************************************************************************)
(* OBATA SMART SAVINGS: the browser-local store (StorageManager), the     *)
(* v2.2 -> v2.3 migrator (DataMigrator), the standalone BackupUtility and *)
(* the key-value persistence they share (localStorage).                   *)
(*                                                                         *)
(* JavaScript values are modelled as follows.  A JSON object is a record  *)
(* whose DOMAIN holds exactly the fields that are present (a missing      *)
(* field reads as undefined).  Arrays that the code only ever replaces    *)
(* (customers, transactions, users, loans) are sequences.  The snapshot   *)
(* objects and the two log arrays, which the code mutates in place and    *)
(* aliases (createBackup's shallow copy), live on a heap: objs and arrs   *)
(* hold them and references are indices.  Timestamps are left out.        *)
(* The operations are atomic actions, except under SpecLoop, which runs   *)
(* the async functions job by job over the page's event loop.             *)
(***************************************************************************)
EXTENDS Integers, Sequences, FiniteSets, TLC

VARIABLES
  localStorage,  \* persistence: a function from the keys present to their parsed values
  objs,          \* heap of snapshot objects (the values currentData may reference)
  arrs,          \* heap of the backup_history / audit_log array objects
  currentData,   \* StorageManager.currentData: JsNull, JsUndefined or an index of objs
  disk,          \* the file last downloaded by exportAllData (<<>> if none)
  call,          \* the last StorageManager call: its name, its input and its outcome
  mig,           \* the DataMigrator run: position, locals and outcome
  loop           \* the page's event loop: queued tasks and microtasks, and the
                 \* locals of the StorageManager call they belong to

vars == <<localStorage, objs, arrs, currentData, disk, call, mig, loop>>

-----------------------------------------------------------------------------
(* Bounds of the model *)

MaxLen == 2        \* records per collection of a hand-made import file
MaxHistory == 1    \* operations stop adding to a backup_history of this length
MaxAudit == 2      \* operations stop adding to an audit_log of this length
MaxLedger == 2     \* entries of an old-schema ledger
MaxOver == 2       \* entries a backup history may hold beyond its cap, and times it is cut back

-----------------------------------------------------------------------------
(* JavaScript helpers *)

JsNull == 0
JsUndefined == 0 - 1

Has(o, f) == f \in DOMAIN o

Max(a, b) == IF a >= b THEN a ELSE b

RECURSIVE SumSeq(_)
SumSeq(s) == IF s = <<>> THEN 0 ELSE Head(s) + SumSeq(Tail(s))

\* {...a, ...b}
Spread(a, b) == [k \in DOMAIN a \cup DOMAIN b |-> IF k \in DOMAIN b THEN b[k] ELSE a[k]]

\* obj[f] = v on a record
Assign(o, f, v) == [k \in DOMAIN o \cup {f} |-> IF k = f THEN v ELSE o[k]]

\* an entry added at the end instead of the head
PushLast(s, e) == Append(s, e)

\* array.unshift(e)
Unshift(s, e) == <<e>> \o s

\* a cut that keeps the last n entries instead of the first
SliceLast(s, n) == SubSeq(s, IF Len(s) < n THEN 1 ELSE Len(s) - n + 1, Len(s))

\* array.slice(0, n)
Slice(s, n) == SubSeq(s, 1, IF Len(s) < n THEN Len(s) ELSE n)

\* array.filter(pred) for a set of kept indices
RECURSIVE FilterIdx(_, _, _)
FilterIdx(s, keep, i) ==
  IF i > Len(s) THEN <<>>
  ELSE IF i \in keep THEN <<s[i]>> \o FilterIdx(s, keep, i + 1)
  ELSE FilterIdx(s, keep, i + 1)

-----------------------------------------------------------------------------
(* localStorage *)

newPrefix == "obata_v2_"
oldPrefix == "obata_"

StoreKeys == <<"settings", "users", "customers", "transactions", "loans",
               "backup_history", "audit_log", "metadata">>

oldKeys == <<"auth", "members", "ledger", "last_id", "users", "settings">>

NewKey(k) == <<newPrefix, k>>
OldKey(k) == <<oldPrefix, k>>

hasItem(ls, k) == k \in DOMAIN ls

setItem(ls, k, v) == [x \in DOMAIN ls \cup {k} |-> IF x = k THEN v ELSE ls[x]]

removeItem(ls, k) == [x \in DOMAIN ls \ {k} |-> ls[x]]

-----------------------------------------------------------------------------
(* StorageManager: default data templates *)

getDefaultSettings == [theme |-> "light", language |-> "en"]

getDefaultUsers ==
  << [id |-> 1, username |-> "Admin", password_hash |-> "admin123", role |-> "admin"] >>

getDefaultMetadata ==
  [total_customers |-> 0, total_transactions |-> 0, total_savings |-> 0,
   total_loans |-> 0, last_customer_id |-> 100, last_transaction_id |-> 1000]

\* createDefaultData, with the two log arrays given as references
createDefaultData(hist, audit) ==
  [settings |-> getDefaultSettings, users |-> getDefaultUsers, customers |-> <<>>,
   transactions |-> <<>>, loans |-> <<>>, backup_history |-> hist,
   audit_log |-> audit, metadata |-> getDefaultMetadata]

-----------------------------------------------------------------------------
(* StorageManager: statistics *)

\* customers.reduce((total, c) => total + (c.balance || 0), 0)
calculateTotalSavings(customers) ==
  SumSeq([i \in 1..Len(customers) |->
            IF Has(customers[i], "balance") THEN customers[i].balance ELSE 0])

calculateTotalLoans(loans) ==
  SumSeq([i \in 1..Len(loans) |->
            IF Has(loans[i], "status") /\ loans[i].status = "active"
            THEN loans[i].amount_outstanding ELSE 0])

RECURSIVE MaxOf(_, _)
MaxOf(s, floor) == IF s = <<>> THEN floor ELSE MaxOf(Tail(s), Max(Head(s), floor))

\* parseInt(item[idField]) || 0 over the array, then Math.max(...ids, 100)
getLastId(array, idField) ==
  IF Len(array) = 0 THEN 100
  ELSE MaxOf([i \in 1..Len(array) |->
                IF Has(array[i], idField) THEN array[i][idField] ELSE 0], 100)

\* the metadata record saveAllData derives from a snapshot
DeriveMetadata(d) ==
  [total_customers |-> Len(d.customers),
   total_transactions |-> Len(d.transactions),
   total_savings |-> calculateTotalSavings(d.customers),
   total_loans |-> calculateTotalLoans(d.loans),
   last_customer_id |-> getLastId(d.customers, "id"),
   last_transaction_id |-> getLastId(d.transactions, "txId")]

-----------------------------------------------------------------------------
(* JSON.stringify over the heap *)

HasData(e) == Has(e, "data")

\* JSON.stringify throws on a circular structure: a backup entry whose embedded
\* snapshot leads back to an array already on the path
RECURSIVE CircularArr(_, _, _, _)
CircularArr(os, as, a, path) ==
  \/ a \in path
  \/ \E i \in 1..Len(as[a]) :
       /\ HasData(as[a][i])
       /\ CircularArr(os, as, os[as[a][i].data].backup_history, path \cup {a})

\* the parsed-back JSON value of an array object / of a snapshot object
RECURSIVE JsonArr(_, _, _)
RECURSIVE JsonObj(_, _, _)
JsonArr(os, as, a) ==
  [i \in 1..Len(as[a]) |->
     IF HasData(as[a][i])
     THEN Assign(as[a][i], "data", JsonObj(os, as, as[a][i].data))
     ELSE as[a][i]]

JsonObj(os, as, o) ==
  Assign(Assign(os[o], "backup_history", JsonArr(os, as, os[o].backup_history)),
         "audit_log", as[os[o].audit_log])

\* generateChecksum: hash = ((hash << 5) - hash) + char, kept to 32 bits, over
\* the character codes of the serialized snapshot (here: its item counts and ids)
CharCodes(d) ==
  <<Len(d.customers), Len(d.transactions), Len(d.users), Len(d.loans)>>
    \o [i \in 1..Len(d.customers) |-> IF Has(d.customers[i], "id") THEN d.customers[i].id ELSE 0]

\* 32-bit arithmetic on two 16-bit halves <<hi, lo>>: (hash << 5) - hash + char
Step32(h, char) ==
  LET lo == h[2] * 31 + char
      hi == h[1] * 31 + (lo \div 65536)
  IN <<hi % 65536, lo % 65536>>

RECURSIVE HashFrom(_, _)
HashFrom(hash, s) ==
  IF s = <<>> THEN hash ELSE HashFrom(Step32(hash, Head(s)), Tail(s))

\* hash & hash: the signed 32-bit value
Signed32(h) == (IF h[1] >= 32768 THEN h[1] - 65536 ELSE h[1]) * 65536 + h[2]

generateChecksum(d) == Signed32(HashFrom(<<0, 0>>, CharCodes(d)))

-----------------------------------------------------------------------------
(* StorageManager: the operations, as functions of the store state            *)
(*   S = [ls: localStorage, os: objs, as: arrs, cur: currentData]             *)
(* Each returns [st |-> the state it leaves, ret |-> what it returns].        *)

BackupCap == 50
AuditCap == 1000

IsObject(cur) == cur > 0

\* save(key, value): localStorage.setItem(prefix + key, JSON.stringify(value))
save(S, key, value) == [S EXCEPT !.ls = setItem(S.ls, NewKey(key), value)]

\* load(key): item ? JSON.parse(item) : null, followed by the caller's || default
load(ls, key, default) == IF hasItem(ls, NewKey(key)) THEN ls[NewKey(key)] ELSE default

\* logAudit(action, details); the caller has checked that currentData is an object
logAudit(S, action, details) ==
  LET a == S.os[S.cur].audit_log
      logEntry == [action |-> action, details |-> details]
      grown == Unshift(S.as[a], logEntry)
      S1 == IF Len(grown) > AuditCap
            THEN [S EXCEPT !.as = Append([S.as EXCEPT ![a] = grown], Slice(grown, AuditCap)),
                           !.os[S.cur].audit_log = Len(S.as) + 1]
            ELSE [S EXCEPT !.as[a] = grown]
  IN save(S1, "audit_log", S1.as[S1.os[S1.cur].audit_log])

\* logBackup(type, backupData): the entry carries item counts and no snapshot
logBackup(S, type, backupData) ==
  LET h == S.os[S.cur].backup_history
      d == backupData.data
      backupLog == [type |-> type,
                    items |-> [customers |-> IF Has(d, "customers") THEN Len(d.customers) ELSE 0,
                               transactions |-> IF Has(d, "transactions") THEN Len(d.transactions) ELSE 0,
                               users |-> IF Has(d, "users") THEN Len(d.users) ELSE 0]]
      S1 == [S EXCEPT !.as[h] = Unshift(@, backupLog)]
  IN save(S1, "backup_history", JsonArr(S1.os, S1.as, h))

\* createBackup(type): the shallow copy { ...this.currentData } is a new snapshot
\* object that shares the two log arrays with the live one
createBackup(S, type) ==
  IF ~IsObject(S.cur) THEN [st |-> S, ret |-> "null"]
  ELSE
    LET copy == Len(S.os) + 1
        live == S.os[S.cur]
        backup == [type |-> type, data |-> copy,
                   metadata |-> [customers |-> Len(live.customers),
                                 transactions |-> Len(live.transactions),
                                 users |-> Len(live.users)]]
        h == live.backup_history
        grown == Unshift(S.as[h], backup)
        S1 == [S EXCEPT !.os = Append(@, live)]
        S2 == IF Len(grown) > BackupCap
              THEN [S1 EXCEPT !.as = Append([S1.as EXCEPT ![h] = grown], Slice(grown, BackupCap)),
                              !.os[S.cur].backup_history = Len(S1.as) + 1]
              ELSE [S1 EXCEPT !.as[h] = grown]
        h2 == S2.os[S2.cur].backup_history
    IN IF CircularArr(S2.os, S2.as, h2, {})
       THEN [st |-> S2, ret |-> "null"]
       ELSE [st |-> save(S2, "backup_history", JsonArr(S2.os, S2.as, h2)), ret |-> "backup"]

\* the value saveAllData writes for the n-th of its eight records
RecordValue(S, d, n) ==
  IF StoreKeys[n] = "backup_history" THEN JsonArr(S.os, S.as, d.backup_history)
  ELSE IF StoreKeys[n] = "audit_log" THEN S.as[d.audit_log]
  ELSE d[StoreKeys[n]]

\* the records 1..n written in order
RECURSIVE SaveRecords(_, _, _)
SaveRecords(S, d, n) ==
  IF n = 0 THEN S ELSE save(SaveRecords(S, d, n - 1), StoreKeys[n], RecordValue(S, d, n))

\* the first record whose JSON.stringify throws (9 if none does)
FirstThrow(S, d) ==
  IF CircularArr(S.os, S.as, d.backup_history, {}) THEN 6 ELSE 9

\* saveAllData(): failAt is the number of the setItem call the persistence layer
\* rejects (0: none; 1..8: a record; 9: the audit_log write of logAudit)
saveAllData(S, failAt) ==
  IF ~IsObject(S.cur) THEN [st |-> S, ret |-> "undefined"]
  ELSE
    LET S1 == [S EXCEPT !.os[S.cur].metadata = DeriveMetadata(S.os[S.cur])]
        d == S1.os[S1.cur]
        stop == IF failAt \in 1..8 /\ failAt < FirstThrow(S1, d) THEN failAt
                ELSE FirstThrow(S1, d)
    IN IF stop <= 8
       THEN [st |-> SaveRecords(S1, d, stop - 1), ret |-> "false"]
       ELSE
         LET S2 == SaveRecords(S1, d, 8)
             S3 == logAudit(S2, "DATA_SAVED",
                            [items_saved |-> d.metadata.total_customers
                                             + d.metadata.total_transactions])
         IN IF failAt = 9
            THEN [st |-> [S3 EXCEPT !.ls = S2.ls], ret |-> "false"]
            ELSE [st |-> S3, ret |-> "true"]

-----------------------------------------------------------------------------
(* StorageManager: import validation and merge *)

\* a validation that leaves the schema version unchecked
validateAnyVersion(c) ==
  /\ Has(c, "data")
  /\ Has(c.data, "customers")
  /\ Has(c.data, "transactions")

validateImportData(c) ==
  /\ Has(c, "schema_version") /\ c.schema_version = "2.3"
  /\ Has(c, "data")
  /\ Has(c.data, "customers")
  /\ Has(c.data, "transactions")

\* item[field], wrapped so that a missing field (undefined) compares equal to itself
KeyOf(item, field) == IF Has(item, field) THEN <<item[field]>> ELSE <<>>

\* a merge that pushes every imported item, found or not
MergeAppendAll(merged, imported, field) == merged \o imported

\* a merge in which a colliding imported item replaces the existing one
RECURSIVE MergeOverwrite(_, _, _)
MergeOverwrite(merged, imported, field) ==
  IF imported = <<>> THEN merged
  ELSE LET item == Head(imported)
           hits == {i \in 1..Len(merged) : KeyOf(merged[i], field) = KeyOf(item, field)}
       IN MergeOverwrite(IF hits = {} THEN Append(merged, item)
                         ELSE [i \in 1..Len(merged) |-> IF i \in hits THEN item ELSE merged[i]],
                         Tail(imported), field)

\* the forEach / find / push loop of mergeData
RECURSIVE MergeByKey(_, _, _)
MergeByKey(merged, imported, field) ==
  IF imported = <<>> THEN merged
  ELSE LET item == Head(imported)
           found == \E i \in 1..Len(merged) : KeyOf(merged[i], field) = KeyOf(item, field)
       IN MergeByKey(IF found THEN merged ELSE Append(merged, item), Tail(imported), field)

\* a loan merge that keeps the last occurrence of each loanId
MergeLoansKeepLast(a, b) ==
  LET all == a \o b
      last == {i \in 1..Len(all) :
                 \A j \in (i + 1)..Len(all) : KeyOf(all[j], "loanId") # KeyOf(all[i], "loanId")}
  IN FilterIdx(all, last, 1)

\* [...a, ...b].filter((v, i, arr) => arr.findIndex(t => t.loanId === v.loanId) === i)
MergeLoans(a, b) ==
  LET all == a \o b
      first == {i \in 1..Len(all) :
                  \A j \in 1..(i - 1) : KeyOf(all[j], "loanId") # KeyOf(all[i], "loanId")}
  IN FilterIdx(all, first, 1)

\* mergeData throws a TypeError where it calls forEach on, or spreads, undefined
mergeDataThrows(imported) == ~Has(imported, "users") \/ ~Has(imported, "loans")

mergeData(existing, imported) ==
  [existing EXCEPT
     !.customers = MergeByKey(existing.customers, imported.customers, "id"),
     !.transactions = MergeByKey(existing.transactions, imported.transactions, "txId"),
     !.users = MergeByKey(existing.users, imported.users, "username"),
     !.settings = IF Has(imported, "settings") THEN Spread(existing.settings, imported.settings)
                  ELSE existing.settings,
     !.loans = MergeLoans(existing.loans, imported.loans)]

\* reader.onload of importData(file)
importData(S, importedData) ==
  IF ~validateImportData(importedData) THEN [st |-> S, ret |-> "rejected_invalid"]
  ELSE
    LET S1 == createBackup(S, "pre_import_backup").st
    IN IF ~IsObject(S1.cur) \/ mergeDataThrows(importedData.data)
       THEN [st |-> S1, ret |-> "rejected_error"]
       ELSE
         LET S2 == [S1 EXCEPT !.os = Append(@, mergeData(S1.os[S1.cur], importedData.data)),
                              !.cur = Len(S1.os) + 1]
             S3 == saveAllData(S2, 0).st
             imported == IF Has(importedData.data, "metadata")
                            /\ Has(importedData.data.metadata, "total_customers")
                         THEN importedData.data.metadata.total_customers ELSE 0
         IN [st |-> logAudit(S3, "DATA_IMPORTED",
                             [source |-> "file", items_imported |-> imported]),
             ret |-> "resolved"]

-----------------------------------------------------------------------------
(* StorageManager: export, restore, load, clear *)

\* exportAllData(): file is the downloaded container (<<>> if none was produced)
exportAllData(S) ==
  IF S.cur = JsNull
  THEN [st |-> S, ret |-> "false",
        file |-> << [schema_version |-> "2.3", checksum |-> generateChecksum(
                       [customers |-> <<>>, transactions |-> <<>>, users |-> <<>>, loans |-> <<>>])] >>]
  ELSE IF ~IsObject(S.cur) \/ CircularArr(S.os, S.as, S.os[S.cur].backup_history, {})
  THEN [st |-> S, ret |-> "false", file |-> <<>>]
  ELSE
    LET snapshot == JsonObj(S.os, S.as, S.cur)
        data == [schema_version |-> "2.3", data |-> snapshot,
                 checksum |-> generateChecksum(snapshot)]
    IN [st |-> logBackup(S, "manual", data), ret |-> "true", file |-> <<data>>]

\* a restore that takes the safety backup before it looks for the entry
restoreBackupFirst(S, backupIndex) ==
  IF ~IsObject(S.cur) THEN [st |-> S, ret |-> "false"]
  ELSE
    LET h == S.os[S.cur].backup_history
        S1 == createBackup(S, "pre_restore_backup").st
    IN IF backupIndex < 0 \/ backupIndex >= Len(S.as[h]) THEN [st |-> S1, ret |-> "false"]
       ELSE
         LET backup == S.as[h][backupIndex + 1]
             S2 == [S1 EXCEPT !.cur = IF HasData(backup) THEN backup.data ELSE JsUndefined]
             S3 == saveAllData(S2, 0).st
         IN IF ~IsObject(S3.cur) THEN [st |-> S3, ret |-> "false"]
            ELSE [st |-> logAudit(S3, "BACKUP_RESTORED", [user |-> "system"]), ret |-> "true"]

\* a restore that picks the entry at backupIndex after the safety backup went in
restoreBackupShifted(S, backupIndex) ==
  IF ~IsObject(S.cur) THEN [st |-> S, ret |-> "false"]
  ELSE
    LET h == S.os[S.cur].backup_history
    IN IF backupIndex < 0 \/ backupIndex >= Len(S.as[h]) THEN [st |-> S, ret |-> "false"]
       ELSE
         LET S1 == createBackup(S, "pre_restore_backup").st
             backup == S1.as[S1.os[S1.cur].backup_history][backupIndex + 1]
             S2 == [S1 EXCEPT !.cur = IF HasData(backup) THEN backup.data ELSE JsUndefined]
             S3 == saveAllData(S2, 0).st
         IN IF ~IsObject(S3.cur) THEN [st |-> S3, ret |-> "false"]
            ELSE [st |-> logAudit(S3, "BACKUP_RESTORED", [user |-> "system"]), ret |-> "true"]

\* restoreBackup(backupIndex), backupIndex counted from 0
restoreBackup(S, backupIndex) ==
  IF ~IsObject(S.cur) THEN [st |-> S, ret |-> "false"]
  ELSE
    LET h == S.os[S.cur].backup_history
    IN IF backupIndex < 0 \/ backupIndex >= Len(S.as[h]) THEN [st |-> S, ret |-> "false"]
       ELSE
         LET backup == S.as[h][backupIndex + 1]
             S1 == createBackup(S, "pre_restore_backup").st
             S2 == [S1 EXCEPT !.cur = IF HasData(backup) THEN backup.data ELSE JsUndefined]
             S3 == saveAllData(S2, 0).st
         IN IF ~IsObject(S3.cur) THEN [st |-> S3, ret |-> "false"]
            ELSE [st |-> logAudit(S3, "BACKUP_RESTORED", [user |-> "system"]), ret |-> "true"]

\* the value standing for a stored text that JSON.parse cannot read, of the kind
\* (object or array) the key holds
Garbled(key) ==
  IF key \in {"settings", "metadata"} THEN [garbled |-> TRUE] ELSE << [garbled |-> TRUE] >>

\* JSON.parse throws in one of the eight load() calls
loadThrows(ls) ==
  \E i \in 1..Len(StoreKeys) :
    hasItem(ls, NewKey(StoreKeys[i])) /\ ls[NewKey(StoreKeys[i])] = Garbled(StoreKeys[i])

\* loadAllData(): every record parsed afresh, so nothing of the old heap is shared;
\* when a load() throws, the catch returns createDefaultData() and leaves
\* this.currentData as it was
loadAllData(S) ==
  IF loadThrows(S.ls) THEN S
  ELSE
  [S EXCEPT
     !.os = << [settings |-> load(S.ls, "settings", getDefaultSettings),
                users |-> load(S.ls, "users", getDefaultUsers),
                customers |-> load(S.ls, "customers", <<>>),
                transactions |-> load(S.ls, "transactions", <<>>),
                loans |-> load(S.ls, "loans", <<>>),
                backup_history |-> 1,
                audit_log |-> 2,
                metadata |-> load(S.ls, "metadata", getDefaultMetadata)] >>,
     !.as = << load(S.ls, "backup_history", <<>>), load(S.ls, "audit_log", <<>>) >>,
     !.cur = 1]

\* clearAll(): every key that starts with the storage prefix goes
clearAll(S) ==
  [S EXCEPT
     !.ls = [k \in {x \in DOMAIN S.ls : x[1] # newPrefix} |-> S.ls[k]],
     !.os = << createDefaultData(1, 2) >>,
     !.as = << <<>>, <<>> >>,
     !.cur = 1]

-----------------------------------------------------------------------------
(* Import files the user may select: hand-made containers and the last export *)

UserNames == <<"Admin", "bob">>

Entries == {<<1, "a">>, <<1, "b">>, <<2, "a">>}

Shapes == UNION {[1..n -> Entries] : n \in 0..MaxLen}

Customer(e) == [id |-> e[1], name |-> e[2], balance_savings |-> 10 * e[1]]

Transaction(e) ==
  [txId |-> 1000 + e[1], customer_id |-> e[1], type |-> "DAILY", amount |-> 10,
   status |-> "completed", notes |-> e[2]]

User(e) == [id |-> e[1], username |-> UserNames[e[1]], password_hash |-> e[2], role |-> "admin"]

Loan(e) ==
  [loanId |-> e[1], status |-> IF e[2] = "a" THEN "active" ELSE "closed",
   amount_outstanding |-> 100]

FileData(shape) ==
  [customers |-> [i \in 1..Len(shape) |-> Customer(shape[i])],
   transactions |-> [i \in 1..Len(shape) |-> Transaction(shape[i])],
   users |-> [i \in 1..Len(shape) |-> User(shape[i])],
   loans |-> [i \in 1..Len(shape) |-> Loan(shape[i])],
   settings |-> [theme |-> "dark"],
   metadata |-> [total_customers |-> Len(shape)]]

Without(r, f) == [k \in DOMAIN r \ {f} |-> r[k]]

ValidFiles == {[schema_version |-> "2.3", data |-> FileData(s)] : s \in Shapes}

\* containers with a field missing or an old schema version
BrokenFiles ==
  LET base == {[schema_version |-> "2.3", data |-> FileData(<< <<2, "a">> >>)]}
  IN   {[f EXCEPT !.schema_version = "2.2"] : f \in base}
  \cup {Without(f, "data") : f \in base}
  \cup {[f EXCEPT !.data = Without(f.data, fld)] : f \in base,
          fld \in {"customers", "transactions", "users", "loans"}}

Files == ValidFiles \cup BrokenFiles

-----------------------------------------------------------------------------
(* The store as a state machine *)

Store == [ls |-> localStorage, os |-> objs, as |-> arrs, cur |-> currentData]

Called(op, ret, file, index) == [op |-> op, ret |-> ret, file |-> file, index |-> index]

MigIdle ==
  [pc |-> "idle", newData |-> <<>>, saved |-> "", k |-> 0, archive |-> <<>>, ret |-> "", log |-> ""]

\* no task is queued, no microtask is pending, no call is under way
LoopIdle == [tasks |-> <<>>, micro |-> <<>>, file |-> <<>>, entry |-> <<>>, index |-> 0]

Live == objs[currentData]
LiveHistory == arrs[Live.backup_history]
LiveAudit == arrs[Live.audit_log]

\* the logs are capped at 50 and 1000 entries; the model stops earlier
Room ==
  IsObject(currentData) => Len(LiveHistory) < MaxHistory /\ Len(LiveAudit) < MaxAudit

Install(S) ==
  /\ localStorage' = S.ls
  /\ objs' = S.os
  /\ arrs' = S.as
  /\ currentData' = S.cur

StoreInit ==
  /\ localStorage = <<>>
  /\ objs = <<>>
  /\ arrs = <<>>
  /\ currentData = JsNull
  /\ disk = <<>>
  /\ call = Called("constructor", "", <<>>, 0)
  /\ mig = MigIdle
  /\ loop = LoopIdle

\* page load: new StorageManager().initialize()
Initialize ==
  /\ Install(loadAllData([ls |-> localStorage, os |-> <<>>, as |-> <<>>, cur |-> JsNull]))
  /\ call' = Called("initialize", IF loadThrows(localStorage) THEN "null" ELSE "data", <<>>, 0)
  /\ UNCHANGED <<disk, mig, loop>>

SaveAllData ==
  /\ Room
  /\ LET r == saveAllData(Store, 0)
     IN Install(r.st) /\ call' = Called("saveAllData", r.ret, <<>>, 0)
  /\ UNCHANGED <<disk, mig, loop>>

ExportAllData ==
  /\ Room
  /\ LET r == exportAllData(Store)
     IN /\ Install(r.st)
        /\ disk' = IF r.file = <<>> THEN disk ELSE r.file
        /\ call' = Called("exportAllData", r.ret, <<>>, 0)
  /\ UNCHANGED <<mig, loop>>

\* importData(file) and its reader.onload, for a file out of files
ImportFrom(files) ==
  /\ Room
  /\ \E f \in files :
       LET r == importData(Store, f)
       IN Install(r.st) /\ call' = Called("importData", r.ret, <<f>>, 0)
  /\ UNCHANGED <<disk, mig, loop>>

\* the user selects a hand-made file
ImportData == ImportFrom(Files)

\* the user selects the file the last export downloaded
ImportExported == ImportFrom({disk[i] : i \in 1..Len(disk)})

\* the setInterval callback of setupAutoBackup
AutoBackup ==
  /\ Room
  /\ LET r == createBackup(Store, "auto_backup")
     IN Install(r.st) /\ call' = Called("createBackup", r.ret, <<>>, 0)
  /\ UNCHANGED <<disk, mig, loop>>

\* a restore also needs an entry to restore: the history may be full
RestoreBackup ==
  /\ IsObject(currentData) => Len(LiveHistory) <= MaxHistory /\ Len(LiveAudit) < MaxAudit
  /\ \E backupIndex \in (0 - 1)..MaxHistory :
       LET r == restoreBackup(Store, backupIndex)
       IN Install(r.st) /\ call' = Called("restoreBackup", r.ret, <<>>, backupIndex)
  /\ UNCHANGED <<disk, mig, loop>>

ClearAll ==
  /\ Install(clearAll(Store))
  /\ call' = Called("clearAll", "", <<>>, 0)
  /\ UNCHANGED <<disk, mig, loop>>

-----------------------------------------------------------------------------
(* DataMigrator: pure helpers *)

\* Number.prototype.toString / parseInt on non-negative integers, as digit strings
RECURSIVE toString(_)
toString(n) == IF n < 10 THEN <<n>> ELSE Append(toString(n \div 10), n % 10)

RECURSIVE ParseFrom(_, _)
ParseFrom(acc, digits) ==
  IF digits = <<>> THEN acc ELSE ParseFrom(acc * 10 + Head(digits), Tail(digits))

parseInt(digits) == ParseFrom(0, digits)

SavingsTypes == {"DAILY", "WEEKLY", "MONTHLY"}

\* a filter that lets reversed entries through
customerTxsWithReversed(customerId, ledger) ==
  FilterIdx(ledger, {i \in 1..Len(ledger) : toString(ledger[i].cust) = customerId}, 1)

\* ledger.filter(tx => tx.cust.toString() === customerId.toString() && !tx.reversed)
customerTxs(customerId, ledger) ==
  FilterIdx(ledger,
            {i \in 1..Len(ledger) :
               toString(ledger[i].cust) = customerId /\ ~ledger[i].reversed}, 1)

calculateSavingsBalance(customerId, oldData) ==
  IF ~Has(oldData, "ledger") THEN 0
  ELSE LET txs == customerTxs(customerId, oldData.ledger)
       IN SumSeq([i \in 1..Len(txs) |->
                    IF txs[i].type \in SavingsTypes THEN txs[i].amount
                    ELSE IF txs[i].type = "WITHDRAWAL" THEN 0 - txs[i].amount
                    ELSE 0])

calculateLoanBalance(customerId, oldData) ==
  IF ~Has(oldData, "ledger") THEN 0
  ELSE LET txs == customerTxs(customerId, oldData.ledger)
       IN SumSeq([i \in 1..Len(txs) |->
                    IF txs[i].type = "LOAN" THEN txs[i].amount
                    ELSE IF txs[i].type = "LOAN_REPAY" THEN 0 - txs[i].amount
                    ELSE 0])

\* the migrator's own calculateTotalSavings reads balance_savings
migratorTotalSavings(customers) ==
  SumSeq([i \in 1..Len(customers) |->
            IF Has(customers[i], "balance_savings") THEN customers[i].balance_savings ELSE 0])

Capabilities ==
  {"member_creation", "transaction_posting", "withdrawal", "loan_management",
   "account_closure", "account_reactivation", "view_statements", "search_customers",
   "generate_reports", "manage_users", "import_export", "system_settings",
   "drive_management"}

\* getDefaultPermissions(role), as the set of capabilities that are true
getDefaultPermissions(role) ==
  IF role = "admin" THEN Capabilities
  ELSE IF role = "supervisor"
  THEN {"member_creation", "transaction_posting", "withdrawal", "loan_management",
        "account_closure", "account_reactivation", "view_statements",
        "search_customers", "generate_reports"}
  ELSE IF role = "thrift_collector"
  THEN {"member_creation", "transaction_posting", "withdrawal", "loan_management",
        "view_statements", "search_customers"}
  ELSE {}

\* Object.keys(members): integer-like keys come in ascending numeric order
RECURSIVE KeysInOrder(_)
KeysInOrder(keys) ==
  IF keys = {} THEN <<>>
  ELSE LET least == CHOOSE k \in keys : \A j \in keys : parseInt(k) <= parseInt(j)
       IN <<least>> \o KeysInOrder(keys \ {least})

\* tx.txId || Date.now() + Math.random(): a synthesized id is some fresh number
SynthesizedIds == {9001, 9002}

-----------------------------------------------------------------------------
(* DataMigrator: loadOldData, transformData, saveNewData *)

\* a guard that looks for the archive record only
archiveExists(ls) == hasItem(ls, NewKey("archive_v22"))

isAlreadyMigrated(ls) ==
  hasItem(ls, NewKey("settings")) \/ hasItem(ls, NewKey("archive_v22"))

\* loadOldData(): the record of the old keys present (the caller tests it for emptiness)
loadOldData(ls) ==
  [k \in {oldKeys[i] : i \in {j \in 1..Len(oldKeys) : hasItem(ls, OldKey(oldKeys[j]))}}
     |-> ls[OldKey(k)]]

transformCustomers(oldData) ==
  IF ~Has(oldData, "members") THEN <<>>
  ELSE LET ids == KeysInOrder(DOMAIN oldData.members)
       IN [i \in 1..Len(ids) |->
             LET member == oldData.members[ids[i]]
             IN [id |-> parseInt(ids[i]),
                 name |-> IF Has(member, "name") THEN member.name ELSE "",
                 status |-> IF Has(member, "active") /\ member.active = FALSE
                            THEN "inactive" ELSE "active",
                 balance_savings |-> calculateSavingsBalance(ids[i], oldData),
                 balance_loans |-> calculateLoanBalance(ids[i], oldData)]]

\* synth[i] is the id Date.now() + Math.random() yields for the i-th ledger entry
transformTransactions(oldData, synth) ==
  IF ~Has(oldData, "ledger") THEN <<>>
  ELSE [i \in 1..Len(oldData.ledger) |->
          LET tx == oldData.ledger[i]
          IN [txId |-> IF Has(tx, "txId") THEN tx.txId ELSE synth[i],
              customer_id |-> tx.cust,
              type |-> tx.type,
              amount |-> tx.amount,
              status |-> IF tx.reversed THEN "reversed" ELSE "completed",
              \* <<id>> for an id, <<>> for null or undefined
              reversal_of |-> IF tx.reversed /\ Has(tx, "txId") THEN <<tx.txId>> ELSE <<>>]]

transformUsers(oldData) ==
  IF ~Has(oldData, "users") THEN <<>>
  ELSE [i \in 1..Len(oldData.users) |->
          LET user == oldData.users[i]
          IN [id |-> user.id,
              username |-> user.username,
              password_hash |-> user.password,
              role |-> user.role,
              permissions |-> IF Has(user, "permissions") THEN user.permissions
                              ELSE getDefaultPermissions(user.role)]]

transformData(oldData, synth) ==
  LET customers == transformCustomers(oldData)
      transactions == transformTransactions(oldData, synth)
  IN [settings |-> IF Has(oldData, "settings")
                   THEN Spread(getDefaultSettings, oldData.settings)
                   ELSE getDefaultSettings,
      users |-> transformUsers(oldData),
      customers |-> customers,
      transactions |-> transactions,
      loans |-> <<>>,
      backup_history |-> 1,
      audit_log |-> 2,
      metadata |-> [total_customers |-> Len(customers),
                    total_transactions |-> Len(transactions),
                    total_savings |-> migratorTotalSavings(customers),
                    total_loans |-> 0,
                    last_customer_id |-> IF Has(oldData, "last_id") /\ oldData.last_id # 0
                                         THEN oldData.last_id ELSE 100,
                    last_transaction_id |-> 1000,
                    migration_version |-> "2.2_to_2.3"]]

\* archiveOldData(): the k-th turn of its forEach, on <<localStorage, archive>>
archiveTurn(la, k) ==
  LET key == oldKeys[k]
  IN IF hasItem(la[1], OldKey(key))
     THEN <<removeItem(la[1], OldKey(key)), Assign(la[2], key, la[1][OldKey(key)])>>
     ELSE la

RECURSIVE archiveTurns(_, _)
archiveTurns(ls, k) == IF k = 0 THEN <<ls, <<>> >> ELSE archiveTurn(archiveTurns(ls, k - 1), k)

\* archiveOldData() run to its end with the archive write accepted
archiveOldData(ls) ==
  LET la == archiveTurns(ls, Len(oldKeys))
  IN setItem(la[1], NewKey("archive_v22"), la[2])

\* saveNewData(data): a fresh StorageManager whose currentData is data, then
\* saveAllData(), whose outcome the migrator does not look at
saveNewData(ls, data, failAt) ==
  saveAllData([ls |-> ls, os |-> <<data>>, as |-> << <<>>, <<>> >>, cur |-> 1], failAt).st.ls

\* what that saveAllData() resolves to, which saveNewData drops
savedNewData(ls, data, failAt) ==
  saveAllData([ls |-> ls, os |-> <<data>>, as |-> << <<>>, <<>> >>, cur |-> 1], failAt).ret

StoreNext ==
  \/ Initialize
  \/ SaveAllData
  \/ ImportData
  \/ ClearAll

\* the store in use: page loads, saves, imports of hand-made files, clearing
Spec == StoreInit /\ [][StoreNext]_vars

\* the files of a single record
SmallFiles == {f \in ValidFiles : Len(f.data.customers) = 1}

ImportSmall == ImportFrom(SmallFiles)

BackupNext ==
  \/ Initialize
  \/ SaveAllData
  \/ ExportAllData
  \/ ImportSmall
  \/ AutoBackup
  \/ RestoreBackup

\* the store with its backups: the timer's auto-backup, exports and restores
SpecBackup == StoreInit /\ [][BackupNext]_vars

-----------------------------------------------------------------------------
(* The migrator as a state machine *)

MigDone(ret, log) == [MigIdle EXCEPT !.pc = "done", !.ret = ret, !.log = log]

\* migrate() up to the transformed snapshot: guard, loadOldData, transformData
Migrate ==
  /\ mig.pc \in {"idle", "done"}
  /\ IF isAlreadyMigrated(localStorage)
     THEN mig' = MigDone("true", "already migrated")
     ELSE LET oldData == loadOldData(localStorage)
          IN IF DOMAIN oldData = {}
             THEN mig' = MigDone("true", "no old data")
             ELSE \E synth \in [{i \in 1..(IF Has(oldData, "ledger") THEN Len(oldData.ledger) ELSE 0) :
                                   ~Has(oldData.ledger[i], "txId")} -> SynthesizedIds] :
                    mig' = [MigIdle EXCEPT !.pc = "save",
                                           !.newData = <<transformData(oldData, synth)>>]
  /\ UNCHANGED <<localStorage, objs, arrs, currentData, disk, call, loop>>

\* saveNewData(newData); the persistence layer may reject any one write
SaveNewData ==
  /\ mig.pc = "save"
  /\ \E failAt \in 0..9 :
       /\ localStorage' = saveNewData(localStorage, mig.newData[1], failAt)
       /\ mig' = [mig EXCEPT !.pc = "archive", !.k = 1,
                             !.saved = savedNewData(localStorage, mig.newData[1], failAt)]
  /\ UNCHANGED <<objs, arrs, currentData, disk, call, loop>>

\* archiveOldData(): one turn of its forEach over the old keys
ArchiveKey ==
  /\ mig.pc = "archive" /\ mig.k <= Len(oldKeys)
  /\ LET la == archiveTurn(<<localStorage, mig.archive>>, mig.k)
     IN /\ localStorage' = la[1]
        /\ mig' = [mig EXCEPT !.k = @ + 1, !.archive = la[2]]
  /\ UNCHANGED <<objs, arrs, currentData, disk, call, loop>>

\* archiveOldData(): the setItem of the archive record, which may be rejected;
\* migrate() then returns true, or false from its catch
ArchiveWrite ==
  /\ mig.pc = "archive" /\ mig.k = Len(oldKeys) + 1
  /\ \E accepted \in BOOLEAN :
       IF accepted
       THEN /\ localStorage' = setItem(localStorage, NewKey("archive_v22"), mig.archive)
            /\ mig' = MigDone("true", "completed")
       ELSE /\ UNCHANGED localStorage
            /\ mig' = MigDone("false", "failed")
  /\ UNCHANGED <<objs, arrs, currentData, disk, call, loop>>

\* the page is closed or reloaded while migrate() runs
Interrupt ==
  /\ mig.pc \in {"save", "archive"}
  /\ mig' = MigIdle
  /\ UNCHANGED <<localStorage, objs, arrs, currentData, disk, call, loop>>

\* old-schema records as the v2.2 application left them
SampleOld ==
  [auth |-> [user |-> "Admin"],
   members |-> [id \in {<<7>>, <<8>>} |->
                  IF id = <<7>> THEN [name |-> "Ada"] ELSE [name |-> "Bo", active |-> FALSE]],
   ledger |-> << [txId |-> 501, cust |-> 7, type |-> "DAILY", amount |-> 50, reversed |-> FALSE],
                 [txId |-> 502, cust |-> 7, type |-> "WITHDRAWAL", amount |-> 20, reversed |-> FALSE],
                 [txId |-> 503, cust |-> 8, type |-> "LOAN", amount |-> 300, reversed |-> TRUE] >>,
   last_id |-> 105,
   users |-> << [id |-> 1, username |-> "Admin", password |-> "secret", role |-> "admin"] >>,
   settings |-> [theme |-> "dark"]]

OldStore(present, values) == [k \in {OldKey(x) : x \in present} |-> values[k[2]]]

NoStore ==
  /\ objs = <<>>
  /\ arrs = <<>>
  /\ currentData = JsNull
  /\ disk = <<>>
  /\ call = Called("constructor", "", <<>>, 0)
  /\ loop = LoopIdle

MigrateInit ==
  /\ \E present \in SUBSET {oldKeys[i] : i \in 1..Len(oldKeys)} :
       localStorage = OldStore(present, SampleOld)
  /\ mig = MigIdle
  /\ NoStore

MigrateNext ==
  \/ Migrate
  \/ SaveNewData
  \/ ArchiveKey
  \/ ArchiveWrite
  \/ Interrupt

SpecMigrate == MigrateInit /\ [][MigrateNext]_vars

-----------------------------------------------------------------------------
(* transformData on bounded old data *)

LedgerTypes == {"DAILY", "WEEKLY", "MONTHLY", "WITHDRAWAL", "LOAN", "LOAN_REPAY", "FEE"}

TypeAmount ==
  [t \in LedgerTypes |->
     CASE t = "DAILY" -> 50 [] t = "WEEKLY" -> 70 [] t = "MONTHLY" -> 110
       [] t = "WITHDRAWAL" -> 20 [] t = "LOAN" -> 300 [] t = "LOAN_REPAY" -> 40
       [] OTHER -> 5]

LedgerShapes ==
  UNION {[1..n -> {7, 8} \X LedgerTypes \X BOOLEAN] : n \in 0..MaxLedger}

Ledger(shape) ==
  [i \in 1..Len(shape) |->
     [txId |-> 500 + i, cust |-> shape[i][1], type |-> shape[i][2],
      amount |-> TypeAmount[shape[i][2]], reversed |-> shape[i][3]]]

TransformInit ==
  /\ \E shape \in LedgerShapes, ids \in {{<<7>>}, {<<7>>, <<8>>}} :
       localStorage = OldStore({"members", "ledger"},
                               [members |-> [id \in ids |-> [name |-> "Ada"]],
                                ledger |-> Ledger(shape)])
  /\ mig = MigIdle
  /\ NoStore

SpecTransform == TransformInit /\ [][Migrate]_vars

-----------------------------------------------------------------------------
(* Export, then import into an empty store *)

AllOld == OldStore({oldKeys[i] : i \in 1..Len(oldKeys)}, SampleOld)

\* persistence after a complete migration of the sample old data
MigratedStore ==
  archiveOldData(saveNewData(AllOld, transformData(loadOldData(AllOld), <<>>), 0))

\* persistence after a first page load and the import of file f
ImportedStore(f) ==
  importData(loadAllData([ls |-> <<>>, os |-> <<>>, as |-> <<>>, cur |-> JsNull]), f).st.ls

RoundTripInit ==
  /\ localStorage \in {MigratedStore} \cup {ImportedStore(f) : f \in ValidFiles}
  /\ mig = MigIdle
  /\ NoStore

RoundTripNext ==
  \/ Initialize
  \/ ExportAllData
  \/ ClearAll
  \/ ImportExported

SpecRoundTrip == RoundTripInit /\ [][RoundTripNext]_vars

-----------------------------------------------------------------------------
(* Properties: merge-on-import (C1 - C4), checked under Spec *)

ImportResolved == call.op = "importData" /\ call.ret = "resolved"

ImportedData == call.file[1].data

Range(seq) == {seq[i] : i \in 1..Len(seq)}

KeysIn(seq, field) == {seq[i][field] : i \in 1..Len(seq)}

Unique(seq, field) ==
  \A i, j \in 1..Len(seq) : i # j => seq[i][field] # seq[j][field]

\* C1: after a merge-on-import no two customers share an id, no two
\* transactions share a txId and no two users share a username.
C1_MergeKeepsKeysUnique ==
  ImportResolved =>
    /\ Unique(Live.customers, "id")
    /\ Unique(Live.transactions, "txId")
    /\ Unique(Live.users, "username")

\* an import was merged whose file carried the same customer id twice
C1_Witness ==
  /\ ImportResolved
  /\ \E i, j \in 1..Len(ImportedData.customers) :
       /\ i < j
       /\ ImportedData.customers[i].id = ImportedData.customers[j].id
       /\ ImportedData.customers[i].id \in KeysIn(Live.customers, "id")

\* every record of old is still at its place in new, unchanged, and no other
\* record of new carries its key
KeepsExisting(old, new, field) ==
  \A i \in 1..Len(old) :
    /\ i <= Len(new)
    /\ new[i] = old[i]
    /\ \A j \in 1..Len(new) : new[j][field] = old[i][field] => j = i

\* C2: on a collision of id, txId or username the existing record is kept with
\* every field unchanged and the imported record of that key is dropped.
C2_ExistingRecordWins ==
  [][(call'.op = "importData" /\ call'.ret = "resolved") =>
       /\ KeepsExisting(Live.customers, Live'.customers, "id")
       /\ KeepsExisting(Live.transactions, Live'.transactions, "txId")
       /\ KeepsExisting(Live.users, Live'.users, "username")]_vars

\* an import was merged whose first customer of some id differs from the live
\* customer of that id: it collided with an existing record and was dropped
C2_Witness ==
  /\ ImportResolved
  /\ \E i \in 1..Len(ImportedData.customers), j \in 1..Len(Live.customers) :
       /\ ImportedData.customers[i].id = Live.customers[j].id
       /\ \A k \in 1..(i - 1) : ImportedData.customers[k].id # ImportedData.customers[i].id
       /\ ImportedData.customers[i] # Live.customers[j]

\* the records of seq that are the first of their key, in order
RECURSIVE FirstOfKey(_, _, _)
FirstOfKey(seq, field, seen) ==
  IF seq = <<>> THEN <<>>
  ELSE IF Head(seq)[field] \in seen THEN FirstOfKey(Tail(seq), field, seen)
  ELSE <<Head(seq)>> \o FirstOfKey(Tail(seq), field, seen \cup {Head(seq)[field]})

\* every record of old is in new, and so is every record of imported whose key
\* is not a key of old
NothingLost(old, imported, new, field) ==
  /\ Range(old) \subseteq Range(new)
  /\ \A i \in 1..Len(imported) :
       imported[i][field] \notin KeysIn(old, field) => imported[i] \in Range(new)

\* the same, for the imported records that are the first of their key in the file
NothingLostButRepeats(old, imported, new, field) ==
  /\ Range(old) \subseteq Range(new)
  /\ \A i \in 1..Len(imported) :
       /\ imported[i][field] \notin KeysIn(old, field)
       /\ \A k \in 1..(i - 1) : imported[k][field] # imported[i][field]
       => imported[i] \in Range(new)

\* C3 as stated: nothing of E is lost, every imported record whose key is not
\* in E is present, loans keep the first occurrence with E's entries first.
C3_NothingLost ==
  [][(call'.op = "importData" /\ call'.ret = "resolved") =>
       /\ NothingLost(Live.customers, ImportedData'.customers, Live'.customers, "id")
       /\ NothingLost(Live.transactions, ImportedData'.transactions, Live'.transactions, "txId")
       /\ NothingLost(Live.users, ImportedData'.users, Live'.users, "username")
       /\ NothingLost(Live.loans, ImportedData'.loans, Live'.loans, "loanId")
       /\ Live'.loans = FirstOfKey(Live.loans \o ImportedData'.loans, "loanId", {})]_vars

\* C3 amended: nothing of E is lost, and every imported record whose key is
\* neither in E nor carried by an earlier record of the same imported
\* collection is present; loans keep the first occurrence, E's entries first.
C3_NothingLostButRepeats ==
  [][(call'.op = "importData" /\ call'.ret = "resolved") =>
       /\ NothingLostButRepeats(Live.customers, ImportedData'.customers, Live'.customers, "id")
       /\ NothingLostButRepeats(Live.transactions, ImportedData'.transactions,
                                Live'.transactions, "txId")
       /\ NothingLostButRepeats(Live.users, ImportedData'.users, Live'.users, "username")
       /\ NothingLostButRepeats(Live.loans, ImportedData'.loans, Live'.loans, "loanId")
       /\ Live'.loans = FirstOfKey(Live.loans \o ImportedData'.loans, "loanId", {})]_vars

\* an import was merged onto existing data: the first live customer and loan are
\* not from the file, the second ones are
C3_Witness ==
  /\ ImportResolved
  /\ Len(Live.customers) = 2 /\ Len(Live.loans) = 2
  /\ Live.customers[1] \notin Range(ImportedData.customers)
  /\ Live.customers[2] \in Range(ImportedData.customers)
  /\ Live.loans[1] \notin Range(ImportedData.loans)
  /\ Live.loans[2] \in Range(ImportedData.loans)

\* the containers the import must refuse
FailsValidation(c) ==
  \/ c.schema_version # "2.3"
  \/ "data" \notin DOMAIN c
  \/ "customers" \notin DOMAIN c.data
  \/ "transactions" \notin DOMAIN c.data

\* C4: a container that fails validation is rejected as invalid before any
\* mutation: the snapshot in memory and every persisted key stay as they were.
C4_InvalidImportChangesNothing ==
  [][(call'.op = "importData" /\ FailsValidation(call'.file[1])) =>
       /\ call'.ret = "rejected_invalid"
       /\ localStorage' = localStorage
       /\ objs' = objs
       /\ arrs' = arrs
       /\ currentData' = currentData]_vars

\* a schema 2.2 container was refused by a store that holds customers
C4_Witness ==
  /\ call.op = "importData" /\ call.ret = "rejected_invalid"
  /\ call.file[1].schema_version = "2.2"
  /\ IsObject(currentData) /\ Live.customers # <<>>

-----------------------------------------------------------------------------
(* Properties: metadata (C5), under Spec; round trip (C6), under SpecRoundTrip *)

\* C5: after a save, total_savings is the sum of balance_savings over the
\* customers, total_customers and total_transactions are the collection lengths.
C5_MetadataDerived ==
  (call.op = "saveAllData" /\ call.ret = "true") =>
    /\ Live.metadata.total_savings
         = SumSeq([i \in 1..Len(Live.customers) |-> Live.customers[i].balance_savings])
    /\ Live.metadata.total_customers = Len(Live.customers)
    /\ Live.metadata.total_transactions = Len(Live.transactions)

\* the live snapshot is the default one, with empty logs
EmptyStore ==
  /\ IsObject(currentData)
  /\ Live.settings = getDefaultSettings /\ Live.users = getDefaultUsers
  /\ Live.customers = <<>> /\ Live.transactions = <<>> /\ Live.loans = <<>>
  /\ Live.metadata = getDefaultMetadata
  /\ LiveHistory = <<>> /\ LiveAudit = <<>>

\* the live data records equal those of the serialized snapshot d (the two
\* logs and the metadata, which an import never takes from the file, aside)
SameSnapshot(d) ==
  /\ Live.settings = d.settings
  /\ Live.users = d.users
  /\ Live.customers = d.customers
  /\ Live.transactions = d.transactions
  /\ Live.loans = d.loans

\* C6: importing an exported container into an empty store yields a snapshot
\* equal to the exported one.
C6_RoundTrip ==
  [][(/\ call'.op = "importData" /\ call'.ret = "resolved"
      /\ call'.file = disk
      /\ EmptyStore) => SameSnapshot(disk[1].data)']_vars

-----------------------------------------------------------------------------
(* Properties: migration (C7, C9, C10) under SpecMigrate, (C8) under SpecTransform *)

OldNames == {"auth", "members", "ledger", "last_id", "users", "settings"}

NewNames == {"settings", "users", "customers", "transactions", "loans",
             "backup_history", "audit_log", "metadata"}

SettingsKey == <<"obata_v2_", "settings">>
ArchiveKeyName == <<"obata_v2_", "archive_v22">>

\* migrate() is called in this step
MigrateCalled == mig.pc \in {"idle", "done"}

\* C7: when the current-schema settings record or the archive record exists,
\* migrate() writes and deletes nothing and reports success; so does a
\* migrate() that directly follows a finished one.
C7_MigrateIdempotent ==
  [][(/\ MigrateCalled
      /\ \/ SettingsKey \in DOMAIN localStorage
         \/ ArchiveKeyName \in DOMAIN localStorage
         \/ mig.pc = "done") =>
       /\ localStorage' = localStorage
       /\ mig'.pc = "done"
       /\ mig'.ret = "true"]_vars

\* a second migrate() found the archive of a completed migration and did nothing
C7_Witness ==
  /\ mig.pc = "done" /\ mig.log = "already migrated"
  /\ ArchiveKeyName \in DOMAIN localStorage
  /\ "members" \in DOMAIN localStorage[ArchiveKeyName]

\* the ledger entries of customer id that count, summed over the given types
LedgerSum(ledger, id, types) ==
  SumSeq([i \in 1..Len(ledger) |->
            IF ledger[i].cust = id /\ ~ledger[i].reversed /\ ledger[i].type \in types
            THEN ledger[i].amount ELSE 0])

OldLedger ==
  IF <<"obata_", "ledger">> \in DOMAIN localStorage
  THEN localStorage[<<"obata_", "ledger">>] ELSE <<>>

\* C8: a migrated customer's balance_savings is the sum of its non-reversed
\* DAILY, WEEKLY and MONTHLY amounts minus its non-reversed WITHDRAWAL amounts,
\* its balance_loans the non-reversed LOAN amounts minus the LOAN_REPAY ones.
C8_BalancesFromLedger ==
  mig.pc = "save" =>
    \A i \in 1..Len(mig.newData[1].customers) :
      LET c == mig.newData[1].customers[i]
      IN /\ c.balance_savings
              = LedgerSum(OldLedger, c.id, {"DAILY", "WEEKLY", "MONTHLY"})
                - LedgerSum(OldLedger, c.id, {"WITHDRAWAL"})
         /\ c.balance_loans
              = LedgerSum(OldLedger, c.id, {"LOAN"}) - LedgerSum(OldLedger, c.id, {"LOAN_REPAY"})

\* member 7 with DAILY 50 and WITHDRAWAL 20 became customer 7 with savings 30
C8_Witness ==
  /\ mig.pc = "save"
  /\ Len(OldLedger) = 2
  /\ OldLedger[1].cust = 7 /\ OldLedger[1].type = "DAILY" /\ ~OldLedger[1].reversed
  /\ OldLedger[2].cust = 7 /\ OldLedger[2].type = "WITHDRAWAL" /\ ~OldLedger[2].reversed
  /\ mig.newData[1].customers[1].id = 7
  /\ mig.newData[1].customers[1].balance_savings = 30

\* C9: no old-schema key leaves persistence before an archive record holding
\* its value has been persisted, and migration deletes no new-schema key.
C9_ArchiveBeforeDelete ==
  [][/\ \A k \in OldNames :
          (<<"obata_", k>> \in DOMAIN localStorage /\ <<"obata_", k>> \notin DOMAIN localStorage')
          => /\ ArchiveKeyName \in DOMAIN localStorage
             /\ k \in DOMAIN localStorage[ArchiveKeyName]
             /\ localStorage[ArchiveKeyName][k] = localStorage[<<"obata_", k>>]
     /\ \A k \in NewNames :
          <<"obata_v2_", k>> \in DOMAIN localStorage => <<"obata_v2_", k>> \in DOMAIN localStorage']_vars

\* C10: a migrate() retried after an interruption between the save of the new
\* snapshot and the archive step does not take the store for migrated: it goes
\* on to save and archive.
C10_RetryResumesArchive ==
  [][(/\ mig.pc = "idle" /\ mig'.pc # "idle"
      /\ \A k \in NewNames : <<"obata_v2_", k>> \in DOMAIN localStorage
      /\ ArchiveKeyName \notin DOMAIN localStorage
      /\ \E k \in OldNames : <<"obata_", k>> \in DOMAIN localStorage) =>
       mig'.pc = "save"]_vars

-----------------------------------------------------------------------------
(* The store under a persistence layer that may reject a write *)

\* saveAllData() during which localStorage.setItem throws (quota exceeded) on
\* the failAt-th of its writes
SaveRejected ==
  /\ Room
  /\ \E failAt \in 1..9 :
       LET r == saveAllData(Store, failAt)
       IN Install(r.st) /\ call' = Called("saveAllData", r.ret, <<>>, 0)
  /\ UNCHANGED <<disk, mig, loop>>

QuotaNext ==
  \/ Initialize
  \/ SaveAllData
  \/ SaveRejected
  \/ ImportSmall
  \/ ClearAll

SpecQuota == StoreInit /\ [][QuotaNext]_vars

-----------------------------------------------------------------------------
(* Properties: save (C11 under SpecQuota, C12 under Spec) *)

\* the records of the eight store keys that persistence holds
Persisted(ls) ==
  [n \in {m \in NewNames : <<"obata_v2_", m>> \in DOMAIN ls} |-> ls[<<"obata_v2_", n>>]]

\* the snapshot in memory is an object without a cycle, and d is its JSON value
IsJsonOfLive(d, os, as, cur) ==
  /\ cur > 0
  /\ ~CircularArr(os, as, os[cur].backup_history, {})
  /\ d = JsonObj(os, as, cur)

\* C11: whatever write of a save is rejected, the persisted records are all
\* those from before the save or all those of the snapshot saved, never a mix.
C11_SaveAtomic ==
  [][call'.op = "saveAllData" =>
       \/ Persisted(localStorage') = Persisted(localStorage)
       \/ IsJsonOfLive(Persisted(localStorage'), objs', arrs', currentData')]_vars

\* the audit entry a successful save of snapshot d logs
SavedEntry(d) ==
  [action |-> "DATA_SAVED",
   details |-> [items_saved |-> d.metadata.total_customers + d.metadata.total_transactions]]

-----------------------------------------------------------------------------
(* Properties: restore (C13, C14) under SpecBackup *)

\* the data records of two snapshots agree
SameRecords(a, b) ==
  /\ a.customers = b.customers
  /\ a.transactions = b.transactions
  /\ a.users = b.users
  /\ a.loans = b.loans
  /\ a.settings = b.settings

\* C13: a restore with an index outside the backup history returns false and
\* changes nothing: no safety backup, no audit entry, the snapshot in memory
\* and every persisted key as before.
C13_RestoreOutOfRange ==
  [][(/\ call'.op = "restoreBackup"
      /\ IsObject(currentData)
      /\ (call'.index < 0 \/ call'.index >= Len(LiveHistory))) =>
       /\ call'.ret = "false"
       /\ localStorage' = localStorage
       /\ objs' = objs
       /\ arrs' = arrs
       /\ currentData' = currentData]_vars

\* a store that holds a backup refused a restore of the index after the last
C13_Witness ==
  /\ call.op = "restoreBackup" /\ call.ret = "false"
  /\ IsObject(currentData)
  /\ LiveHistory # <<>>
  /\ call.index = Len(LiveHistory)

\* C14: after a restore that returns true the live customers, transactions,
\* users, loans and settings are those of the copy embedded in the entry that
\* was at the index when restore was called, and the newest audit entry is
\* BACKUP_RESTORED.
C14_RestoresChosenEntry ==
  [][(call'.op = "restoreBackup" /\ call'.ret = "true") =>
       /\ HasData(LiveHistory[call'.index + 1])
       /\ SameRecords(Live', objs[LiveHistory[call'.index + 1].data])
       /\ Head(LiveAudit').action = "BACKUP_RESTORED"]_vars

\* a restore brought back customers other than those live just before it, which
\* the safety backup at the head of the history still holds
C14_Witness ==
  /\ call.op = "restoreBackup" /\ call.ret = "true"
  /\ LiveHistory[1].type = "pre_restore_backup"
  /\ objs[LiveHistory[1].data].customers # Live.customers

-----------------------------------------------------------------------------
(* The store with a backup history that fills up to its cap and beyond *)

\* the live history holds fewer than the cap plus MaxOver entries, and it has
\* been cut back to the cap (which makes a new array) at most MaxOver times
Space ==
  /\ Len(arrs) <= 2 + MaxOver
  /\ IsObject(currentData) =>
       Len(LiveHistory) < BackupCap + MaxOver /\ Len(LiveAudit) < MaxAudit

\* the setInterval callback of setupAutoBackup, on a history of any length
TimerBackup ==
  /\ Space
  /\ LET r == createBackup(Store, "auto_backup")
     IN Install(r.st) /\ call' = Called("createBackup", r.ret, <<>>, 0)
  /\ UNCHANGED <<disk, mig, loop>>

\* exportAllData(), on a history of any length (the file itself is left aside)
ExportLogged ==
  /\ Space
  /\ LET r == exportAllData(Store)
     IN Install(r.st) /\ call' = Called("exportAllData", r.ret, <<>>, 0)
  /\ UNCHANGED <<disk, mig, loop>>

\* restoreBackup(0) on a history that has reached the cap
RestoreNewest ==
  /\ Space
  /\ IsObject(currentData) /\ Len(LiveHistory) >= BackupCap
  /\ LET r == restoreBackup(Store, 0)
     IN Install(r.st) /\ call' = Called("restoreBackup", r.ret, <<>>, 0)
  /\ UNCHANGED <<disk, mig, loop>>

CapNext ==
  \/ Initialize
  \/ TimerBackup
  \/ ExportLogged
  \/ RestoreNewest

SpecCap == StoreInit /\ [][CapNext]_vars

-----------------------------------------------------------------------------
(* Properties: safety backup and bounded logs (C15, C17, C18) under SpecCap *)

\* C15: after a restore that returns true the live backup history holds a
\* pre_restore_backup entry whose embedded copy has the customers,
\* transactions, users, loans and settings that were live just before.
C15_RestoreReversible ==
  [][(call'.op = "restoreBackup" /\ call'.ret = "true") =>
       \E i \in 1..Len(LiveHistory') :
         /\ LiveHistory'[i].type = "pre_restore_backup"
         /\ HasData(LiveHistory'[i])
         /\ SameRecords(objs'[LiveHistory'[i].data], Live)]_vars

-----------------------------------------------------------------------------
(* Properties: import (C16) under Spec *)

\* C16: a resolved import has put a pre_import_backup of the snapshot from
\* before the merge at the head of the history, merged, saved the merged
\* snapshot (a DATA_SAVED entry, the eight records persisted), and then logged
\* DATA_IMPORTED with the imported customer count as the newest audit entry,
\* directly after that DATA_SAVED entry.
C16_ImportOrder ==
  [][(call'.op = "importData" /\ call'.ret = "resolved") =>
       /\ Head(LiveHistory').type = "pre_import_backup"
       /\ SameRecords(objs'[Head(LiveHistory').data], Live)
       /\ Len(LiveAudit') = Len(LiveAudit) + 2
       /\ LiveAudit'[1] = [action |-> "DATA_IMPORTED",
                           details |-> [source |-> "file",
                                        items_imported |-> Len(ImportedData'.customers)]]
       /\ LiveAudit'[2] = SavedEntry(Live')
       /\ \A n \in NewNames : <<"obata_v2_", n>> \in DOMAIN localStorage']_vars

\* the entries that embed a snapshot stand in the order of their making, newest
\* first (a later copy lies higher on the heap)
MostRecentFirst(h) ==
  \A i, j \in 1..Len(h) :
    (i < j /\ HasData(h[i]) /\ HasData(h[j])) => h[i].data > h[j].data

\* C17: a createBackup call on a history that already holds 50 entries or more
\* leaves exactly 50: the backup just made, of the snapshot live at the call,
\* followed by the 49 newest of before, most recent first.
C17_BackupHistoryCapped ==
  [][(/\ call'.op = "createBackup"
      /\ IsObject(currentData)
      /\ Len(LiveHistory) >= BackupCap) =>
       /\ Len(LiveHistory') = BackupCap
       /\ Head(LiveHistory').type = "auto_backup"
       /\ Head(LiveHistory').data = Len(objs')
       /\ SameRecords(objs'[Len(objs')], Live)
       /\ Tail(LiveHistory') = SubSeq(LiveHistory, 1, BackupCap - 1)
       /\ MostRecentFirst(LiveHistory')]_vars

\* the 52nd backup in a row was made: the history holds the 50 newest
C17_Witness ==
  /\ call.op = "createBackup"
  /\ Len(objs) = BackupCap + 3
  /\ Len(LiveHistory) = BackupCap
  /\ \A i \in 1..BackupCap : LiveHistory[i].data = BackupCap + 4 - i

\* C18: the backup history never holds more than 50 entries and the audit log
\* never more than 1000, most recent first, in memory and in persistence.
C18_LogsBounded ==
  /\ IsObject(currentData) =>
       /\ Len(LiveHistory) <= 50
       /\ Len(LiveAudit) <= 1000
       /\ MostRecentFirst(LiveHistory)
  /\ <<"obata_v2_", "backup_history">> \in DOMAIN localStorage =>
       Len(localStorage[<<"obata_v2_", "backup_history">>]) <= 50
  /\ <<"obata_v2_", "audit_log">> \in DOMAIN localStorage =>
       Len(localStorage[<<"obata_v2_", "audit_log">>]) <= 1000

-----------------------------------------------------------------------------
(* Export and import of files that were changed after the export *)

\* the exported container f with a customer added to its data, checksum untouched
Altered(f) ==
  IF Has(f, "data") THEN [f EXCEPT !.data.customers = Append(@, Customer(<<9, "x">>))]
  ELSE f

\* the user selects the last exported file after it was edited
ImportAltered == ImportFrom({Altered(disk[i]) : i \in 1..Len(disk)})

ExchangeNext ==
  \/ Initialize
  \/ ExportAllData
  \/ ClearAll
  \/ ImportExported
  \/ ImportAltered

SpecExchange == RoundTripInit /\ [][ExchangeNext]_vars

-----------------------------------------------------------------------------
(* Properties: checksum (C19) under SpecExchange *)

\* C19: an exported container carries the hash of its data as checksum, and an
\* import of a container whose checksum is not the hash of its data is
\* rejected and nothing of it is merged.
C19_ChecksumVerified ==
  [][/\ (call'.op = "exportAllData" /\ call'.ret = "true") =>
          disk'[1].checksum = generateChecksum(disk'[1].data)
     /\ (/\ call'.op = "importData"
         /\ Has(call'.file[1], "data")
         /\ call'.file[1].checksum # generateChecksum(call'.file[1].data)) =>
          /\ call'.ret # "resolved"
          /\ currentData' = currentData
          /\ localStorage' = localStorage]_vars

-----------------------------------------------------------------------------
(* Page loads over any persisted state *)

\* a readable value for each of the eight records
SampleRecord(key) ==
  CASE key = "settings" -> [theme |-> "dark", language |-> "fr"]
    [] key = "users" -> << User(<<2, "a">>) >>
    [] key = "customers" -> << Customer(<<1, "a">>) >>
    [] key = "transactions" -> << Transaction(<<1, "a">>) >>
    [] key = "loans" -> << Loan(<<1, "a">>) >>
    [] key = "backup_history" ->
         << [type |-> "manual", items |-> [customers |-> 1, transactions |-> 1, users |-> 1]] >>
    [] key = "audit_log" -> << [action |-> "DATA_SAVED", details |-> [items_saved |-> 2]] >>
    [] key = "metadata" -> DeriveMetadata([customers |-> << Customer(<<1, "a">>) >>,
                                           transactions |-> << Transaction(<<1, "a">>) >>,
                                           loans |-> << Loan(<<1, "a">>) >>])

\* any subset of the eight records present, each readable or not
LoadInit ==
  /\ \E present \in SUBSET NewNames :
       \E garbled \in SUBSET present :
         localStorage = [k \in {NewKey(n) : n \in present} |->
                           IF k[2] \in garbled THEN Garbled(k[2]) ELSE SampleRecord(k[2])]
  /\ mig = MigIdle
  /\ NoStore

LoadNext == Initialize

SpecLoad == LoadInit /\ [][LoadNext]_vars

-----------------------------------------------------------------------------
(* Properties: load (C20) under SpecLoad *)

\* the record a load should yield for key: the stored value, or the default
\* where none is stored or the stored one cannot be read
LoadedRecord(ls, key) ==
  IF <<"obata_v2_", key>> \in DOMAIN ls /\ ls[<<"obata_v2_", key>>] # Garbled(key)
  THEN ls[<<"obata_v2_", key>>]
  ELSE CASE key = "settings" -> getDefaultSettings
         [] key = "users" -> getDefaultUsers
         [] key = "metadata" -> getDefaultMetadata
         [] OTHER -> <<>>

\* C20: a load never fails: whatever persistence holds, the live snapshot
\* afterwards has all eight records, each with its stored value or, where that
\* is absent or unreadable, its default.
C20_LoadNeverFails ==
  call.op = "initialize" =>
    /\ IsObject(currentData)
    /\ Live.settings = LoadedRecord(localStorage, "settings")
    /\ Live.users = LoadedRecord(localStorage, "users")
    /\ Live.customers = LoadedRecord(localStorage, "customers")
    /\ Live.transactions = LoadedRecord(localStorage, "transactions")
    /\ Live.loans = LoadedRecord(localStorage, "loans")
    /\ LiveHistory = LoadedRecord(localStorage, "backup_history")
    /\ LiveAudit = LoadedRecord(localStorage, "audit_log")
    /\ Live.metadata = LoadedRecord(localStorage, "metadata")

-----------------------------------------------------------------------------
(* Properties: migration after a rejected write (C21) under SpecMigrate *)

\* C21: when a write of the new snapshot was rejected during migrate(), no
\* old-schema key is removed, no archive record is written, and migrate()
\* reports failure.
C21_RejectedSaveKeepsOldData ==
  [][(mig.pc = "archive" /\ mig.saved = "false") =>
       /\ \A k \in OldNames :
            <<"obata_", k>> \in DOMAIN localStorage => <<"obata_", k>> \in DOMAIN localStorage'
       /\ ArchiveKeyName \notin DOMAIN localStorage'
       /\ mig'.pc = "done" => mig'.ret = "false"]_vars

-----------------------------------------------------------------------------
(* Properties: restore of any history entry (C22) under SpecBackup *)

\* C22: restoreBackup(index) on a live store either returns true with a
\* snapshot object installed, or returns false with the live snapshot still an
\* object holding the records it held before the call; this for every entry of
\* the history, the manual ones that exportAllData logs included.
C22_RestoreKeepsLiveSnapshot ==
  [][(call'.op = "restoreBackup" /\ IsObject(currentData)) =>
       \/ call'.ret = "true" /\ IsObject(currentData')
       \/ /\ call'.ret = "false"
          /\ IsObject(currentData')
          /\ SameRecords(Live', Live)]_vars

-----------------------------------------------------------------------------
(* Properties: import of accepted containers (C23) under Spec *)

\* the container has schema version 2.3 and its data has customers and transactions
Accepted(c) ==
  /\ Has(c, "schema_version") /\ c.schema_version = "2.3"
  /\ Has(c, "data")
  /\ Has(c.data, "customers") /\ Has(c.data, "transactions")

\* C23: an import of a container that passes validation, into a live store,
\* does not fail once the pre_import_backup entry is in the backup history:
\* it resolves, or the history is as before.
C23_AcceptedImportCompletes ==
  [][(/\ call'.op = "importData"
      /\ IsObject(currentData)
      /\ Accepted(call'.file[1])) =>
       \/ call'.ret = "resolved"
       \/ LiveHistory' = LiveHistory]_vars

-----------------------------------------------------------------------------
(* Properties: migrated metadata (C24) under SpecMigrate *)

\* C24: after a completed migration the persisted metadata.last_customer_id
\* is the value of the old last_id record (which the archive now holds), or
\* 100 if there was none.
C24_LastCustomerIdFromOldStore ==
  (/\ mig.pc = "done" /\ mig.log = "completed"
   /\ NewKey("metadata") \in DOMAIN localStorage) =>
    localStorage[NewKey("metadata")].last_customer_id
      = IF "last_id" \in DOMAIN localStorage[ArchiveKeyName]
        THEN localStorage[ArchiveKeyName].last_id ELSE 100

-----------------------------------------------------------------------------
(* transformData on ledgers whose entries may lack a txId *)

IdShapes ==
  UNION {[1..n -> {7, 8} \X BOOLEAN \X BOOLEAN] : n \in 0..MaxLedger}

\* shape[i] = <<customer, reversed, has a txId>>
LedgerOf(shape) ==
  [i \in 1..Len(shape) |->
     LET entry == [cust |-> shape[i][1], type |-> "DAILY", amount |-> 50,
                   reversed |-> shape[i][2]]
     IN IF shape[i][3] THEN Assign(entry, "txId", 500 + i) ELSE entry]

LedgerInit ==
  /\ \E shape \in IdShapes :
       localStorage = OldStore({"members", "ledger"},
                               [members |-> [id \in {<<7>>, <<8>>} |-> [name |-> "Ada"]],
                                ledger |-> LedgerOf(shape)])
  /\ mig = MigIdle
  /\ NoStore

LedgerNext == Migrate

SpecLedger == LedgerInit /\ [][LedgerNext]_vars

-----------------------------------------------------------------------------
(* Properties: ledger to transactions (C26) under SpecLedger *)

\* C26: the transformed transactions are the old ledger entries one to one and
\* in order; an entry with the reversed flag becomes a transaction with status
\* reversed whose reversal_of is its own txId, any other entry one with status
\* completed and no reversal_of; entries without an id of their own included.
C26_LedgerToTransactions ==
  mig.pc = "save" =>
    LET txs == mig.newData[1].transactions
    IN /\ Len(txs) = Len(OldLedger)
       /\ \A i \in 1..Len(txs) :
            /\ txs[i].customer_id = OldLedger[i].cust
            /\ txs[i].type = OldLedger[i].type
            /\ txs[i].amount = OldLedger[i].amount
            /\ Has(OldLedger[i], "txId") => txs[i].txId = OldLedger[i].txId
            /\ IF OldLedger[i].reversed
               THEN txs[i].status = "reversed" /\ txs[i].reversal_of = <<txs[i].txId>>
               ELSE txs[i].status = "completed" /\ txs[i].reversal_of = <<>>

-----------------------------------------------------------------------------
(* BackupUtility: the standalone backup and restore over the same records *)

\* backup(): the container built from the records present in localStorage
backup(ls) ==
  [schema_version |-> "2.3",
   backup_date |-> "date",
   data |-> [k \in {StoreKeys[i] : i \in {j \in 1..Len(StoreKeys) : hasItem(ls, NewKey(StoreKeys[j]))}}
               |-> ls[NewKey(k)]]]

validateBackup(b) ==
  /\ Has(b, "schema_version") /\ b.schema_version = "2.3"
  /\ Has(b, "data")
  /\ Has(b, "backup_date")
  /\ (Has(b.data, "customers") \/ Has(b.data, "transactions"))

\* the forEach of restore: one setItem per key of backup.data
RECURSIVE restoreKeys(_, _, _)
restoreKeys(ls, data, keys) ==
  IF keys = {} THEN ls
  ELSE LET k == CHOOSE x \in keys : TRUE
       IN restoreKeys(setItem(ls, NewKey(k), data[k]), data, keys \ {k})

\* reader.onload of restore(file); confirmed is the user's answer to confirm()
restore(ls, file, confirmed) ==
  IF ~validateBackup(file) THEN [ls |-> ls, ret |-> "invalid"]
  ELSE IF ~confirmed THEN [ls |-> ls, ret |-> "declined"]
  ELSE [ls |-> restoreKeys(ls, file.data, DOMAIN file.data), ret |-> "restored"]

\* the user runs BackupUtility.backup(): the file is downloaded
UtilityBackup ==
  /\ disk' = <<backup(localStorage)>>
  /\ call' = Called("backup", "", <<>>, 0)
  /\ UNCHANGED <<localStorage, objs, arrs, currentData, mig, loop>>

\* the user runs BackupUtility.restore(file) with the file downloaded last
UtilityRestore ==
  /\ disk # <<>>
  /\ \E confirmed \in BOOLEAN :
       LET r == restore(localStorage, disk[1], confirmed)
       IN /\ localStorage' = r.ls
          /\ call' = Called("restore", r.ret, disk, 0)
  /\ UNCHANGED <<objs, arrs, currentData, disk, mig, loop>>

UtilityNext ==
  \/ Initialize
  \/ SaveAllData
  \/ ImportSmall
  \/ ClearAll
  \/ UtilityBackup
  \/ UtilityRestore

\* the store in use, with backups and restores by the standalone utility
SpecUtility == StoreInit /\ [][UtilityNext]_vars

-----------------------------------------------------------------------------
(* Properties: BackupUtility.restore (C27) under SpecUtility *)

\* C27: after a validated and confirmed restore each of the eight records
\* holds the backup's value, and a record the backup does not contain is not
\* in persistence any more; a declined or invalid restore writes nothing.
C27_UtilityRestoreReplaces ==
  [][call'.op = "restore" =>
       IF call'.ret = "restored"
       THEN \A k \in NewNames :
              IF k \in DOMAIN call'.file[1].data
              THEN /\ <<"obata_v2_", k>> \in DOMAIN localStorage'
                   /\ localStorage'[<<"obata_v2_", k>>] = call'.file[1].data[k]
              ELSE <<"obata_v2_", k>> \notin DOMAIN localStorage'
       ELSE localStorage' = localStorage]_vars

-----------------------------------------------------------------------------
(* The page's event loop: the StorageManager calls step by step.             *)
(* An async function runs up to its first await in the step that calls it;  *)
(* what follows the await is a job.  A job is <<function, position>>.  A     *)
(* task (a timer callback, a user event, a FileReader load event) starts    *)
(* only when no microtask is pending.                                       *)

\* a continuation that has to wait for a task of its own
resumeAsTask(l, job) == [l EXCEPT !.tasks = Append(@, job)]

\* await p, where p is the promise of createBackup, saveAllData or logAudit:
\* these wait for no timer and no event, so p is settled by microtasks alone
\* and the continuation is a microtask
resume(l, job) == [l EXCEPT !.micro = Append(@, job)]

\* the call is over: its locals are gone
finished(l) == [l EXCEPT !.file = <<>>, !.entry = <<>>, !.index = 0]

\* await this.saveAllData() in function op: saveAllData stands at its own
\* await of logAudit when it neither threw nor found nothing to save
awaitSave(r, l, op) ==
  [st |-> r.st, call |-> <<>>,
   loop |-> resume(l, <<op, IF r.ret = "true" THEN "saved" ELSE "log">>)]

\* reader.onload of importData, one job at a time
importStep(S, l, pc) ==
  LET importedData == l.file[1]
  IN CASE pc = "onload" ->
            IF ~validateImportData(importedData)
            THEN [st |-> S, loop |-> finished(l),
                  call |-> <<Called("importData", "rejected_invalid", l.file, 0)>>]
            ELSE [st |-> createBackup(S, "pre_import_backup").st, call |-> <<>>,
                  loop |-> resume(l, <<"importData", "merge">>)]
       [] pc = "merge" ->
            IF ~IsObject(S.cur) \/ mergeDataThrows(importedData.data)
            THEN [st |-> S, loop |-> finished(l),
                  call |-> <<Called("importData", "rejected_error", l.file, 0)>>]
            ELSE awaitSave(saveAllData([S EXCEPT !.os = Append(@, mergeData(S.os[S.cur], importedData.data)),
                                                 !.cur = Len(S.os) + 1], 0),
                           l, "importData")
       [] pc = "saved" ->
            [st |-> S, call |-> <<>>, loop |-> resume(l, <<"importData", "log">>)]
       [] pc = "log" ->
            [st |-> logAudit(S, "DATA_IMPORTED",
                             [source |-> "file",
                              items_imported |-> IF Has(importedData.data, "metadata")
                                                    /\ Has(importedData.data.metadata, "total_customers")
                                                 THEN importedData.data.metadata.total_customers
                                                 ELSE 0]),
             call |-> <<>>,
             loop |-> resume(l, <<"importData", "resolve">>)]
       [] OTHER ->
            [st |-> S, loop |-> finished(l),
             call |-> <<Called("importData", "resolved", l.file, 0)>>]

\* restoreBackup(backupIndex), one job at a time
restoreStep(S, l, pc) ==
  CASE pc = "called" ->
         IF ~IsObject(S.cur) \/ l.index < 0
            \/ l.index >= Len(S.as[S.os[S.cur].backup_history])
         THEN [st |-> S, loop |-> finished(l),
               call |-> <<Called("restoreBackup", "false", <<>>, l.index)>>]
         ELSE [st |-> createBackup(S, "pre_restore_backup").st, call |-> <<>>,
               loop |-> resume([l EXCEPT !.entry = <<S.as[S.os[S.cur].backup_history][l.index + 1]>>],
                               <<"restoreBackup", "assign">>)]
    [] pc = "assign" ->
         awaitSave(saveAllData([S EXCEPT !.cur = IF HasData(l.entry[1]) THEN l.entry[1].data
                                                 ELSE JsUndefined], 0),
                   l, "restoreBackup")
    [] pc = "saved" ->
         [st |-> S, call |-> <<>>, loop |-> resume(l, <<"restoreBackup", "log">>)]
    [] pc = "log" ->
         IF ~IsObject(S.cur)
         THEN [st |-> S, loop |-> finished(l),
               call |-> <<Called("restoreBackup", "false", <<>>, l.index)>>]
         ELSE [st |-> logAudit(S, "BACKUP_RESTORED", [user |-> "system"]), call |-> <<>>,
               loop |-> resume(l, <<"restoreBackup", "return">>)]
    [] OTHER ->
         [st |-> S, loop |-> finished(l),
          call |-> <<Called("restoreBackup", "true", <<>>, l.index)>>]

\* saveAllData() called by the page, one job at a time
saveStep(S, l, pc) ==
  IF pc = "called"
  THEN LET r == saveAllData(S, 0)
       IN IF r.ret = "true"
          THEN [st |-> r.st, call |-> <<>>, loop |-> resume(l, <<"saveAllData", "return">>)]
          ELSE [st |-> r.st, loop |-> l, call |-> <<Called("saveAllData", r.ret, <<>>, 0)>>]
  ELSE [st |-> S, loop |-> l, call |-> <<Called("saveAllData", "true", <<>>, 0)>>]

\* the setInterval callback: await this.createBackup('auto_backup')
timerStep(S, l, pc) ==
  IF pc = "fired"
  THEN [st |-> createBackup(S, "auto_backup").st, call |-> <<>>,
        loop |-> resume(l, <<"createBackup", "end">>)]
  ELSE [st |-> S, loop |-> l, call |-> <<>>]

RunJob(S, l, job) ==
  CASE job[1] = "importData" -> importStep(S, l, job[2])
    [] job[1] = "restoreBackup" -> restoreStep(S, l, job[2])
    [] job[1] = "saveAllData" -> saveStep(S, l, job[2])
    [] OTHER -> timerStep(S, l, job[2])

Ran(r) ==
  /\ Install(r.st)
  /\ loop' = r.loop
  /\ call' = IF r.call = <<>> THEN call ELSE r.call[1]
  /\ UNCHANGED <<disk, mig>>

\* a task starts when no microtask is pending
NoMicrotask == loop.micro = <<>>

\* the logs leave room for the entries one more call adds
LoopSpace ==
  IsObject(currentData) => Len(LiveHistory) <= MaxHistory /\ Len(LiveAudit) < MaxAudit

\* page load, with nothing of an earlier call left
PageLoad == loop = LoopIdle /\ Initialize

\* the user selects a file: importData(file) starts the FileReader, whose load
\* event is a task
ImportCalled ==
  /\ loop = LoopIdle /\ LoopSpace
  /\ \E f \in SmallFiles :
       loop' = [loop EXCEPT !.file = <<f>>, !.tasks = Append(@, <<"importData", "onload">>)]
  /\ UNCHANGED <<localStorage, objs, arrs, currentData, disk, call, mig>>

\* the user asks for a restore
RestoreCalled ==
  /\ loop = LoopIdle /\ LoopSpace
  /\ \E backupIndex \in 0..MaxHistory :
       Ran(RunJob(Store, [loop EXCEPT !.index = backupIndex], <<"restoreBackup", "called">>))

\* the page saves
SaveCalled ==
  /\ loop = LoopIdle /\ LoopSpace
  /\ Ran(RunJob(Store, loop, <<"saveAllData", "called">>))

\* the interval of setupAutoBackup elapses
TimerFires ==
  /\ NoMicrotask /\ LoopSpace
  /\ IsObject(currentData)
  /\ Ran(RunJob(Store, loop, <<"createBackup", "fired">>))

\* the oldest queued task runs
RunTask ==
  /\ NoMicrotask
  /\ loop.tasks # <<>>
  /\ Ran(RunJob(Store, [loop EXCEPT !.tasks = Tail(@)], Head(loop.tasks)))

\* the oldest pending microtask runs
RunMicrotask ==
  /\ loop.micro # <<>>
  /\ Ran(RunJob(Store, [loop EXCEPT !.micro = Tail(@)], Head(loop.micro)))

LoopNext ==
  \/ PageLoad
  \/ ImportCalled
  \/ RestoreCalled
  \/ SaveCalled
  \/ TimerFires
  \/ RunTask
  \/ RunMicrotask

\* the store in a page whose timer, user events and promise jobs take turns
SpecLoop == StoreInit /\ [][LoopNext]_vars

-----------------------------------------------------------------------------
(* Properties: no interleaving (C25) under SpecLoop *)

IsTimerJob(job) == job[1] = "createBackup"

\* a job of an importData past its load event, of a restoreBackup or of a save
IsStepJob(job) ==
  job[1] \in {"importData", "restoreBackup", "saveAllData"} /\ job[2] # "onload"

Queued(l) == l.micro \o l.tasks

\* the auto-backup callback runs in this step
TimerRan == Len(SelectSeq(Queued(loop'), IsTimerJob)) > Len(SelectSeq(Queued(loop), IsTimerJob))

\* an importData, a restoreBackup or a save stands between two of its steps
Between == SelectSeq(Queued(loop), IsStepJob) # <<>>

\* C25: the auto-backup callback never runs while an importData, a
\* restoreBackup or a save stands between two of its steps, so it never copies
\* or persists a snapshot that such a call has changed in part.
C25_NoInterleaving == [][TimerRan => ~Between]_vars

\* an import stands between its safety backup and its merge, in a page whose
\* timer has fired while the file was being read
C25_Witness ==
  /\ loop.micro # <<>> /\ Head(loop.micro) = <<"importData", "merge">>
  /\ IsObject(currentData)
  /\ Len(LiveHistory) = 2
  /\ LiveHistory[1].type = "pre_import_backup"
  /\ LiveHistory[2].type = "auto_backup"

====
